---------------------------- MODULE Spec2Model ----------------------------
(***************************************************************************)
(* Uniswap V3 position valuation (src/defi_protocols/UniswapV3.py):        *)
(* PositionNFT.__post_init__, PositionNFT.get_fees, PositionNFT.get_balance *)
(* and underlying(), modelled as one call of underlying() that reads the   *)
(* chain step by step.                                                     *)
(*                                                                         *)
(* Numbers are scaled down so that TLC can enumerate them; every width is  *)
(* a named definition:                                                     *)
(*   uint256 accumulators  -> WBits bits                                   *)
(*   2 ** 128 (Q128)       -> 2 ** QBits                                   *)
(*   2 ** 96  (Q96)        -> 2 ** XBits                                   *)
(*   decimal context, 28 significant digits -> Prec significant digits     *)
(*   float, 53 bits        -> FloatPrec significant digits                 *)
(*   BASETICK = 1.0001     -> SqrtBaseNum / SqrtBaseDen per half tick      *)
(* Python's int is unbounded and is modelled by TLA+ integers.             *)
(***************************************************************************)
EXTENDS Integers, Sequences, FiniteSets

\* ------------------------------------------------------------- bounds ----
WBits == 4
QBits == 2
XBits == 4
Prec == 2
FloatPrec == 1
MaxTick == 1
MaxLiquidity == 100
MaxFee == 3
SqrtBaseNum == 11
SqrtBaseDen == 10

\* --------------------------------------------------- integer helpers ----
RECURSIVE Pow(_, _)
Pow(b, k) == IF k <= 0 THEN 1 ELSE b * Pow(b, k - 1)

Abs(n) == IF n < 0 THEN -n ELSE n

Sgn(n) == IF n < 0 THEN -1 ELSE 1

RECURSIVE NumDigits(_)
NumDigits(n) == IF n < 10 THEN 1 ELSE 1 + NumDigits(n \div 10)

\* n / d rounded to the nearest integer, ties to even (n >= 0, d > 0).
RoundHalfEven(n, d) ==
    LET q == n \div d
        r == n % d
    IN  IF 2 * r > d \/ (2 * r = d /\ q % 2 = 1) THEN q + 1 ELSE q

\* Python floor division by a positive divisor.
FloorDiv(n, d) == n \div d

\* ------------------------------------------------ decimal.Decimal -------
\* A Decimal is [m, e], the number m * 10^e, kept canonical (no trailing
\* zero in m; zero is [0, 0]) so that equal numbers are equal records.
RECURSIVE Canon(_, _)
Canon(m, e) ==
    IF m = 0 THEN [m |-> 0, e |-> 0]
    ELSE IF m % 10 = 0 THEN Canon(m \div 10, e + 1)
    ELSE [m |-> m, e |-> e]

\* The context rounding (ROUND_HALF_EVEN) to p significant digits.
RoundTo(p, m, e) ==
    LET k == NumDigits(Abs(m)) - p
    IN  IF k <= 0 THEN Canon(m, e)
        ELSE Canon(Sgn(m) * RoundHalfEven(Abs(m), Pow(10, k)), e + k)

\* Decimal(n) for an int n: exact, whatever its length.
Dec(n) == Canon(n, 0)

DecMul(a, b) == RoundTo(Prec, a.m * b.m, a.e + b.e)

DecAdd(a, b) ==
    LET e == IF a.e < b.e THEN a.e ELSE b.e
    IN  RoundTo(Prec, a.m * Pow(10, a.e - e) + b.m * Pow(10, b.e - e), e)

DecSub(a, b) == DecAdd(a, [m |-> -b.m, e |-> b.e])

\* n / d for integers n >= 0, d > 0, correctly rounded to p digits.
RatRound(p, n, d, e) ==
    IF n = 0 THEN [m |-> 0, e |-> 0]
    ELSE
      LET x0 == NumDigits(n) - NumDigits(d) - p
          Num(x) == IF x <= 0 THEN n * Pow(10, -x) ELSE n
          Den(x) == IF x <= 0 THEN d ELSE d * Pow(10, x)
          x  == IF Num(x0) >= Den(x0) * Pow(10, p) THEN x0 + 1 ELSE x0
      IN  Canon(RoundHalfEven(Num(x), Den(x)), x + e)

DecDiv(a, b) ==
    LET q == RatRound(Prec, Abs(a.m), Abs(b.m), a.e - b.e)
    IN  [m |-> Sgn(a.m) * Sgn(b.m) * q.m, e |-> q.e]

\* int(Decimal): truncation towards zero.
DecToInt(a) ==
    IF a.e >= 0 THEN a.m * Pow(10, a.e)
    ELSE Sgn(a.m) * (Abs(a.m) \div Pow(10, -a.e))

\* float(Decimal): the nearest value of the (shorter) float format.
DecToFloat(a) == RoundTo(FloatPrec, a.m, a.e)

\* ------------------------------------------------------ the chain ------
\* Unsigned WBits-bit accumulators (uint256 in ABI_POOL / ABI_POSITIONS_NFT).
Modulus == Pow(2, WBits)

UintMax == Modulus - 1

\* The accumulator values the reads can return: both ends of the range.
FeeGrowthVals == {0, UintMax}

Ticks == (0 - MaxTick)..MaxTick

LiquidityVals == {0, 1, MaxLiquidity}

\* Wallet addresses as the caller may spell them and as the chain reports
\* them (checksummed).
WalletArgs == {"0xab", "0xAb", "0xCd"}

TOKEN0 == "T0"

TOKEN1 == "T1"

to_checksum_address(a) == IF a = "0xab" THEN "0xAb" ELSE a

\* POSITIONS_NFT.ownerOf(nftid): the position belongs to wallet 0xAb.
ownerOf == "0xAb"

\* get_decimals(token): token0 has one decimal, token1 none.
get_decimals(token) == IF token = TOKEN0 THEN 1 ELSE 0

\* BASETICK ** (i / 2): the square-root price at tick i.
SqrtPriceAtTick(i) ==
    IF i >= 0 THEN RatRound(Prec, Pow(SqrtBaseNum, i), Pow(SqrtBaseDen, i), 0)
    ELSE RatRound(Prec, Pow(SqrtBaseDen, -i), Pow(SqrtBaseNum, -i), 0)

\* The pool's slot0 holds (sqrtPriceX96, tick) with
\* base^(tick/2) <= sqrtPriceX96 / 2^XBits < base^((tick+1)/2).
TickAtOrBelow(t, n) ==
    IF t >= 0 THEN Pow(SqrtBaseNum, t) * Pow(2, XBits) <= n * Pow(SqrtBaseDen, t)
    ELSE Pow(SqrtBaseDen, -t) * Pow(2, XBits) <= n * Pow(SqrtBaseNum, -t)

Slot0States ==
    {s \in (0..Pow(2, XBits + 1)) \X Ticks :
        TickAtOrBelow(s[2], s[1]) /\ ~TickAtOrBelow(s[2] + 1, s[1])}

None == <<>>

NoPosition == [token0 |-> "", token1 |-> "", il |-> 0, iu |-> 0, fr0 |-> 0,
               fr1 |-> 0, liquidity |-> Dec(0), decimals |-> FALSE,
               decimals0 |-> 0, decimals1 |-> 0]

VARIABLES
    pc,                     \* position inside underlying()
    wallet, decimals, fee,  \* arguments of underlying()
    poolFeeToken,           \* chain: the token the pool has taken fees in
    position_nft,           \* the PositionNFT under construction / built
    slot0,                  \* chain: the pool's slot0 at the block last read
    current_tick,
    current_square_price,
    feeGrowthGlobal,        \* <<feeGrowthGlobal0, feeGrowthGlobal1>>
    feeGrowthOutsideLow,    \* <<feeGrowthOutside0X128low, ...1X128low>>
    feeGrowthOutsideUp,     \* <<feeGrowthOutside0X128up, ...1X128up>>
    fees,                   \* None or <<fa, fb>>
    fee_locals,             \* locals of the last get_fees call
    balance_locals,         \* locals of the last get_balance call
    result,                 \* what the running function returned
    exc,                    \* the exception in flight or raised to the caller
    block,                  \* argument of underlying(): a number or LATEST
    head,                   \* chain: the number of the newest block
    reads,                  \* the contract reads issued, <<name, block>>
    calls,                  \* the PositionNFT methods called so far
    nftids, nft, balances,              \* underlying_all(): ids, loop, list
    pool, rates,                        \* get_rate_uniswap_v3(): pool, results
    token_address, blockchain, source,  \* get_price(): arguments
    requested,                          \* get_price(): source as passed in
    price, flag_zero, consulted,        \* get_price(): locals, sources asked
    user_account_data,                  \* spark: the UserAccountData tuple
    asset, pairs                        \* spark: reserves iterated, pairs yielded

\* The state of the functions other than underlying() and PositionNFT.
allVars == <<nftids, nft, balances>>

rateVars == <<pool, rates>>

priceVars == <<token_address, blockchain, source, requested, price,
               flag_zero, consulted>>

sparkVars == <<user_account_data, asset, pairs>>

otherVars == <<calls, allVars, rateVars, priceVars, sparkVars>>

vars == <<pc, wallet, decimals, fee, poolFeeToken, position_nft, slot0,
          current_tick, current_square_price, feeGrowthGlobal,
          feeGrowthOutsideLow, feeGrowthOutsideUp, fees, fee_locals,
          balance_locals, result, exc, block, head, reads, otherVars>>

\* block_identifier = 'latest'
LATEST == 0 - 1

\* The block a call with block_identifier=block is evaluated at.
ReadBlock == IF block = LATEST THEN head ELSE block

\* No PositionNFT method called yet.
CallsIdle == calls = <<>>

\* underlying_all() not running.
AllIdle ==
    /\ nftids = <<>>
    /\ nft = 0
    /\ balances = <<>>

\* get_rate_uniswap_v3() not running.
RateIdle ==
    /\ pool = None
    /\ rates = <<>>

\* get_price() not running.
PriceIdle ==
    /\ token_address = ""
    /\ blockchain = ""
    /\ source = ""
    /\ requested = ""
    /\ price = None
    /\ flag_zero = FALSE
    /\ consulted = <<>>

\* No UserAccountData at hand.
AccountIdle == user_account_data = None

\* holding_underlying_iter() not started.
PositionIdle ==
    /\ asset = 0
    /\ pairs = <<>>

\* Before any of the other functions has run.
OthersIdle ==
    /\ CallsIdle
    /\ AllIdle
    /\ RateIdle
    /\ PriceIdle
    /\ AccountIdle
    /\ PositionIdle

\* underlying() not running: its arguments, locals and reads at rest.
UniIdle ==
    /\ wallet = ownerOf
    /\ decimals = TRUE
    /\ fee = FALSE
    /\ poolFeeToken = 0
    /\ position_nft = NoPosition
    /\ slot0 = None
    /\ current_tick = 0
    /\ current_square_price = Dec(0)
    /\ feeGrowthGlobal = None
    /\ feeGrowthOutsideLow = None
    /\ feeGrowthOutsideUp = None
    /\ fees = None
    /\ fee_locals = None
    /\ balance_locals = None
    /\ result = None
    /\ exc = "none"
    /\ block = 0
    /\ head = 0
    /\ reads = <<>>

\* The variables of underlying() and PositionNFT but pc, result and exc.
uniVars == <<wallet, decimals, fee, poolFeeToken, position_nft, slot0,
             current_tick, current_square_price, feeGrowthGlobal,
             feeGrowthOutsideLow, feeGrowthOutsideUp, fees, fee_locals,
             balance_locals, block, head, reads>>

\* Accumulator values of token tok in this pool.
FeeGrowthOf(tok) == IF tok = poolFeeToken THEN FeeGrowthVals ELSE {0}

\* --------------------------------------------- PositionNFT.get_fees -----
\* Mutant: the lower boundary compared with ">" instead of ">=".
fee_lower_Strict(ic, il, fg, folow) == IF ic > il THEN folow ELSE fg - folow

fee_lower(ic, il, fg, folow) == IF ic >= il THEN folow ELSE fg - folow

fee_upper(ic, iu, fg, foup) == IF ic >= iu THEN fg - foup ELSE foup

fee_growth_diff(fg, lower, upper, fr) == fg - lower - upper - fr

\* int(Decimal(d * self.liquidity) / Decimal(2 ** 128))
fee_descale(d, liquidity) ==
    DecToInt(DecDiv(DecMul(Dec(d), liquidity), Dec(Pow(2, QBits))))

get_fees_locals(self, ic, fg0, fg1, fo0low, fo1low, fo0up, fo1up) ==
    LET l0 == fee_lower(ic, self.il, fg0, fo0low)
        l1 == fee_lower(ic, self.il, fg1, fo1low)
        u0 == fee_upper(ic, self.iu, fg0, fo0up)
        u1 == fee_upper(ic, self.iu, fg1, fo1up)
    IN  [fee_lower_token0 |-> l0, fee_lower_token1 |-> l1,
         fee_upper_token0 |-> u0, fee_upper_token1 |-> u1,
         fa |-> fee_descale(fee_growth_diff(fg0, l0, u0, self.fr0), self.liquidity),
         fb |-> fee_descale(fee_growth_diff(fg1, l1, u1, self.fr1), self.liquidity)]

get_fees(self, ic, fg0, fg1, fo0low, fo1low, fo0up, fo1up) ==
    LET loc == get_fees_locals(self, ic, fg0, fg1, fo0low, fo1low, fo0up, fo1up)
    IN  <<loc.fa, loc.fb>>

\* ------------------------------------------ PositionNFT.get_balance -----
\* Mutant: the first branch taken for iu < ic only.
regime_StrictUpper(il, iu, ic) ==
    IF iu < ic THEN "upper"
    ELSE IF il < ic /\ ic < iu THEN "inside"
    ELSE "lower"

\* Which branch of the if / elif / else the current tick selects.
regime(il, iu, ic) ==
    IF iu <= ic THEN "upper"
    ELSE IF il < ic /\ ic < iu THEN "inside"
    ELSE "lower"

\* Mutant: the fee of the zero-reserve token dropped.
clamp_fee_Dropped(f) == 0

\* Mutant: the fee of the zero-reserve token added as it is.
clamp_fee_Unclamped(f) == f

\* "fa if fa > 0 else 0"
clamp_fee(f) == IF f > 0 THEN f ELSE 0

\* amount0, amount0fee, amount1, amount1fee as the chosen branch sets them
\* (the int 0 of a branch is shown as the Decimal it is converted to).
branch_amounts(self, ic, sp, fa, fb) ==
    LET sa == SqrtPriceAtTick(self.il)
        sb == SqrtPriceAtTick(self.iu)
        L  == self.liquidity
        r  == regime(self.il, self.iu, ic)
    IN  IF r = "upper" THEN
            [regime |-> r, amount0 |-> Dec(0), amount0fee |-> clamp_fee(fa),
             amount1 |-> DecMul(L, DecSub(sb, sa)), amount1fee |-> fb]
        ELSE IF r = "inside" THEN
            [regime |-> r,
             amount0 |-> DecDiv(DecMul(L, DecSub(sb, sp)), DecMul(sp, sb)),
             amount0fee |-> fa,
             amount1 |-> DecMul(L, DecSub(sp, sa)), amount1fee |-> fb]
        ELSE
            [regime |-> r,
             amount0 |-> DecDiv(DecMul(L, DecSub(sb, sa)), DecMul(sa, sb)),
             amount0fee |-> fa,
             amount1 |-> Dec(0), amount1fee |-> clamp_fee(fb)]

\* Decimal(amount) + Decimal(amountfee)
add_fee(amount, amountfee) == DecAdd(amount, Dec(amountfee))

\* float(amount / Decimal(10 ** decimals)) or int(amount)
scale_amount(self, amount, dec) ==
    IF self.decimals THEN DecToFloat(DecDiv(amount, Dec(Pow(10, dec))))
    ELSE DecToInt(amount)

\* "amount > 0" for the float or int that scale_amount returned
is_reported(self, final) == IF self.decimals THEN final.m > 0 ELSE final > 0

get_balance_locals(self, ic, sp, fees_) ==
    LET fa == IF fees_ = None THEN 0 ELSE fees_[1]
        fb == IF fees_ = None THEN 0 ELSE fees_[2]
        b  == branch_amounts(self, ic, sp, fa, fb)
        t0 == add_fee(b.amount0, b.amount0fee)
        t1 == add_fee(b.amount1, b.amount1fee)
    IN  [regime |-> b.regime,
         reserve0 |-> b.amount0, amount0fee |-> b.amount0fee,
         reserve1 |-> b.amount1, amount1fee |-> b.amount1fee,
         total0 |-> t0, total1 |-> t1,
         amount0 |-> scale_amount(self, t0, self.decimals0),
         amount1 |-> scale_amount(self, t1, self.decimals1)]

\* Mutant: no "if self.liquidity != 0" around the computation.
get_balance_NoGuard(self, ic, sp, fees_) ==
    LET loc == get_balance_locals(self, ic, sp, fees_)
    IN  (IF is_reported(self, loc.amount0)
           THEN << <<self.token0, loc.amount0>> >> ELSE <<>>)
        \o (IF is_reported(self, loc.amount1)
           THEN << <<self.token1, loc.amount1>> >> ELSE <<>>)

get_balance(self, ic, sp, fees_) ==
    IF self.liquidity = Dec(0) THEN <<>>
    ELSE
      LET loc == get_balance_locals(self, ic, sp, fees_)
      IN  (IF is_reported(self, loc.amount0)
             THEN << <<self.token0, loc.amount0>> >> ELSE <<>>)
          \o (IF is_reported(self, loc.amount1)
             THEN << <<self.token1, loc.amount1>> >> ELSE <<>>)

\* ------------------------------------------------------ underlying() ----
Init ==
    /\ pc = "start"
    /\ wallet \in WalletArgs
    /\ decimals \in BOOLEAN
    /\ fee \in BOOLEAN
    /\ poolFeeToken \in {0, 1}
    /\ position_nft = NoPosition
    /\ slot0 = None
    /\ current_tick = 0
    /\ current_square_price = Dec(0)
    /\ feeGrowthGlobal = None
    /\ feeGrowthOutsideLow = None
    /\ feeGrowthOutsideUp = None
    /\ fees = None
    /\ fee_locals = None
    /\ balance_locals = None
    /\ result = None
    /\ exc = "none"
    /\ block = 0
    /\ head = 0
    /\ reads = <<>>
    /\ OthersIdle

\* wallet = web3.to_checksum_address(wallet)
Checksum ==
    /\ pc = "start"
    /\ wallet' = to_checksum_address(wallet)
    /\ pc' = "owner"
    /\ UNCHANGED <<decimals, fee, poolFeeToken, position_nft, slot0,
                   current_tick, current_square_price, feeGrowthGlobal,
                   feeGrowthOutsideLow, feeGrowthOutsideUp, fees, fee_locals,
                   balance_locals, result, exc>>
    /\ UNCHANGED reads
    /\ UNCHANGED <<block, head, otherVars>>

\* __post_init__: ownerOf(nftid), and the raise when it is another wallet.
PostInitOwner ==
    /\ pc = "owner"
    /\ IF ownerOf # wallet
         THEN exc' = "NFTOwnerError" /\ pc' = "except"
         ELSE exc' = exc /\ pc' = "positions"
    /\ UNCHANGED <<wallet, decimals, fee, poolFeeToken, position_nft, slot0,
                   current_tick, current_square_price, feeGrowthGlobal,
                   feeGrowthOutsideLow, feeGrowthOutsideUp, fees, fee_locals,
                   balance_locals, result>>
    /\ reads' = reads \o <<<<"ownerOf", ReadBlock>>>>
    /\ UNCHANGED <<block, head, otherVars>>

\* Mutant: no except clause, the NFTOwnerError reaches the caller.
ExceptNFTOwnerError_Propagates ==
    /\ pc = "except"
    /\ exc = "NFTOwnerError"
    /\ pc' = "done"
    /\ UNCHANGED <<wallet, decimals, fee, poolFeeToken, position_nft, slot0,
                   current_tick, current_square_price, feeGrowthGlobal,
                   feeGrowthOutsideLow, feeGrowthOutsideUp, fees, fee_locals,
                   balance_locals, result, exc>>
    /\ UNCHANGED reads
    /\ UNCHANGED <<block, head, otherVars>>

\* "except NFTOwnerError: return []"
ExceptNFTOwnerError ==
    /\ pc = "except"
    /\ exc = "NFTOwnerError"
    /\ exc' = "none"
    /\ result' = <<>>
    /\ pc' = "done"
    /\ UNCHANGED <<wallet, decimals, fee, poolFeeToken, position_nft, slot0,
                   current_tick, current_square_price, feeGrowthGlobal,
                   feeGrowthOutsideLow, feeGrowthOutsideUp, fees, fee_locals,
                   balance_locals>>
    /\ UNCHANGED reads
    /\ UNCHANGED <<block, head, otherVars>>

\* Mutant: the fields are validated and il >= iu raises to the caller.
PostInitPositions_Validates ==
    /\ pc = "positions"
    /\ \E il \in Ticks, iu \in Ticks, liquidity \in LiquidityVals,
          fr0 \in FeeGrowthOf(0), fr1 \in FeeGrowthOf(1) :
            /\ position_nft' = [position_nft EXCEPT
                  !.token0 = TOKEN0, !.token1 = TOKEN1, !.il = il, !.iu = iu,
                  !.fr0 = fr0, !.fr1 = fr1, !.liquidity = Dec(liquidity),
                  !.decimals = decimals]
            /\ exc' = IF il >= iu THEN "InvalidRangeError" ELSE exc
            /\ pc' = IF il >= iu THEN "done"
                     ELSE IF decimals THEN "decimals" ELSE "slot0_tick"
    /\ UNCHANGED <<wallet, decimals, fee, poolFeeToken, slot0, current_tick,
                   current_square_price, feeGrowthGlobal, feeGrowthOutsideLow,
                   feeGrowthOutsideUp, fees, fee_locals, balance_locals,
                   result>>
    /\ reads' = reads \o <<<<"positions", ReadBlock>>>>
    /\ UNCHANGED <<block, head, otherVars>>

\* Mutant: the decimals are read whatever the decimals flag says.
PostInitPositions_ReadsDecimals ==
    /\ pc = "positions"
    /\ \E il \in Ticks, iu \in Ticks, liquidity \in LiquidityVals,
          fr0 \in FeeGrowthOf(0), fr1 \in FeeGrowthOf(1) :
            position_nft' = [position_nft EXCEPT
                !.token0 = TOKEN0, !.token1 = TOKEN1, !.il = il, !.iu = iu,
                !.fr0 = fr0, !.fr1 = fr1, !.liquidity = Dec(liquidity),
                !.decimals = decimals]
    /\ pc' = "decimals"
    /\ UNCHANGED <<wallet, decimals, fee, poolFeeToken, slot0, current_tick,
                   current_square_price, feeGrowthGlobal, feeGrowthOutsideLow,
                   feeGrowthOutsideUp, fees, fee_locals, balance_locals,
                   result, exc>>
    /\ reads' = reads \o <<<<"positions", ReadBlock>>>>
    /\ UNCHANGED <<block, head, otherVars>>

\* __post_init__: positions(nftid)[2:10]; no check of the fields follows.
PostInitPositions ==
    /\ pc = "positions"
    /\ \E il \in Ticks, iu \in Ticks, liquidity \in LiquidityVals,
          fr0 \in FeeGrowthOf(0), fr1 \in FeeGrowthOf(1) :
            position_nft' = [position_nft EXCEPT
                !.token0 = TOKEN0, !.token1 = TOKEN1, !.il = il, !.iu = iu,
                !.fr0 = fr0, !.fr1 = fr1, !.liquidity = Dec(liquidity),
                !.decimals = decimals]
    /\ pc' = IF decimals THEN "decimals" ELSE "slot0_tick"
    /\ UNCHANGED <<wallet, decimals, fee, poolFeeToken, slot0, current_tick,
                   current_square_price, feeGrowthGlobal, feeGrowthOutsideLow,
                   feeGrowthOutsideUp, fees, fee_locals, balance_locals,
                   result, exc>>
    /\ reads' = reads \o <<<<"positions", ReadBlock>>>>
    /\ UNCHANGED <<block, head, otherVars>>

\* __post_init__: the two get_decimals reads, only "if self.decimals".
PostInitDecimals ==
    /\ pc = "decimals"
    /\ position_nft' = [position_nft EXCEPT
          !.decimals0 = get_decimals(position_nft.token0),
          !.decimals1 = get_decimals(position_nft.token1)]
    /\ pc' = "slot0_tick"
    /\ UNCHANGED <<wallet, decimals, fee, poolFeeToken, slot0, current_tick,
                   current_square_price, feeGrowthGlobal, feeGrowthOutsideLow,
                   feeGrowthOutsideUp, fees, fee_locals, balance_locals,
                   result, exc>>
    /\ reads' = reads \o <<<<"get_decimals", head>>,
                         <<"get_decimals", head>>>>
    /\ UNCHANGED <<block, head, otherVars>>

\* current_tick = pool_contract.functions.slot0().call(...)[1]
ReadSlot0Tick ==
    /\ pc = "slot0_tick"
    /\ \E s \in Slot0States : slot0' = s /\ current_tick' = s[2]
    /\ pc' = "slot0_price"
    /\ UNCHANGED <<wallet, decimals, fee, poolFeeToken, position_nft,
                   current_square_price, feeGrowthGlobal, feeGrowthOutsideLow,
                   feeGrowthOutsideUp, fees, fee_locals, balance_locals,
                   result, exc>>
    /\ reads' = reads \o <<<<"getPool", ReadBlock>>,
                         <<"slot0", ReadBlock>>>>
    /\ UNCHANGED <<block, head, otherVars>>

\* sqrt_price_x96 = slot0()[0]; Decimal(sqrt_price_x96) / Decimal(2 ** 96)
\* A second slot0() call: it returns the slot0 of the first one unless the
\* block it is evaluated at is a newer one (slot0 = None).
ReadSlot0Price ==
    /\ pc = "slot0_price"
    /\ \E s \in (IF slot0 = None THEN Slot0States ELSE {slot0}) :
          /\ slot0' = s
          /\ current_square_price' = DecDiv(Dec(s[1]), Dec(Pow(2, XBits)))
    /\ pc' = "fee_growth_global"
    /\ UNCHANGED <<wallet, decimals, fee, poolFeeToken, position_nft,
                   current_tick, feeGrowthGlobal, feeGrowthOutsideLow,
                   feeGrowthOutsideUp, fees, fee_locals, balance_locals,
                   result, exc>>
    /\ reads' = reads \o <<<<"slot0", ReadBlock>>>>
    /\ UNCHANGED <<block, head, otherVars>>

\* feeGrowthGlobal0X128() and feeGrowthGlobal1X128()
ReadFeeGrowthGlobal ==
    /\ pc = "fee_growth_global"
    /\ \E fg0 \in FeeGrowthOf(0), fg1 \in FeeGrowthOf(1) :
          feeGrowthGlobal' = <<fg0, fg1>>
    /\ pc' = "ticks_low"
    /\ UNCHANGED <<wallet, decimals, fee, poolFeeToken, position_nft, slot0,
                   current_tick, current_square_price, feeGrowthOutsideLow,
                   feeGrowthOutsideUp, fees, fee_locals, balance_locals,
                   result, exc>>
    /\ reads' = reads \o <<<<"feeGrowthGlobal0X128", ReadBlock>>,
                         <<"feeGrowthGlobal1X128", ReadBlock>>>>
    /\ UNCHANGED <<block, head, otherVars>>

\* ticks(position_nft.il)[2:4]
ReadTicksLow ==
    /\ pc = "ticks_low"
    /\ \E fo0 \in FeeGrowthOf(0), fo1 \in FeeGrowthOf(1) :
          feeGrowthOutsideLow' = <<fo0, fo1>>
    /\ pc' = "ticks_up"
    /\ UNCHANGED <<wallet, decimals, fee, poolFeeToken, position_nft, slot0,
                   current_tick, current_square_price, feeGrowthGlobal,
                   feeGrowthOutsideUp, fees, fee_locals, balance_locals,
                   result, exc>>
    /\ reads' = reads \o <<<<"ticks", ReadBlock>>>>
    /\ UNCHANGED <<block, head, otherVars>>

\* ticks(position_nft.iu)[2:4]
ReadTicksUp ==
    /\ pc = "ticks_up"
    /\ \E fo0 \in FeeGrowthOf(0), fo1 \in FeeGrowthOf(1) :
          feeGrowthOutsideUp' = <<fo0, fo1>>
    /\ pc' = "fees"
    /\ UNCHANGED <<wallet, decimals, fee, poolFeeToken, position_nft, slot0,
                   current_tick, current_square_price, feeGrowthGlobal,
                   feeGrowthOutsideLow, fees, fee_locals, balance_locals,
                   result, exc>>
    /\ reads' = reads \o <<<<"ticks", ReadBlock>>>>
    /\ UNCHANGED <<block, head, otherVars>>

\* fees = None; if fee: fees = position_nft.get_fees(...)
CallGetFees ==
    /\ pc = "fees"
    /\ IF fee
         THEN LET loc == get_fees_locals(position_nft, current_tick,
                            feeGrowthGlobal[1], feeGrowthGlobal[2],
                            feeGrowthOutsideLow[1], feeGrowthOutsideLow[2],
                            feeGrowthOutsideUp[1], feeGrowthOutsideUp[2])
              IN  /\ fee_locals' = <<loc>>
                  /\ fees' = get_fees(position_nft, current_tick,
                            feeGrowthGlobal[1], feeGrowthGlobal[2],
                            feeGrowthOutsideLow[1], feeGrowthOutsideLow[2],
                            feeGrowthOutsideUp[1], feeGrowthOutsideUp[2])
         ELSE fees' = None /\ fee_locals' = fee_locals
    /\ pc' = "balance"
    /\ UNCHANGED <<wallet, decimals, fee, poolFeeToken, position_nft, slot0,
                   current_tick, current_square_price, feeGrowthGlobal,
                   feeGrowthOutsideLow, feeGrowthOutsideUp, balance_locals,
                   result, exc>>
    /\ UNCHANGED reads
    /\ UNCHANGED <<block, head, otherVars>>

\* balances = position_nft.get_balance(...); return balances
CallGetBalance ==
    /\ pc = "balance"
    /\ balance_locals' =
          IF position_nft.liquidity = Dec(0) THEN None
          ELSE <<get_balance_locals(position_nft, current_tick,
                                    current_square_price, fees)>>
    /\ result' = get_balance(position_nft, current_tick,
                             current_square_price, fees)
    /\ pc' = "done"
    /\ UNCHANGED <<wallet, decimals, fee, poolFeeToken, position_nft, slot0,
                   current_tick, current_square_price, feeGrowthGlobal,
                   feeGrowthOutsideLow, feeGrowthOutsideUp, fees, fee_locals,
                   exc>>
    /\ UNCHANGED reads
    /\ UNCHANGED <<block, head, otherVars>>

Next ==
    \/ Checksum
    \/ PostInitOwner
    \/ ExceptNFTOwnerError
    \/ PostInitPositions
    \/ PostInitDecimals
    \/ ReadSlot0Tick
    \/ ReadSlot0Price
    \/ ReadFeeGrowthGlobal
    \/ ReadTicksLow
    \/ ReadTicksUp
    \/ CallGetFees
    \/ CallGetBalance

Spec == Init /\ [][Next]_vars

\* ------------------------------ get_balance called on its own ----------
\* get_balance is a public method: here it is applied to a position, a
\* pool price and a fees argument drawn from bounded sets.
FeeArgVals == {0 - MaxFee, 0, MaxFee}

FeesArgs == {None} \cup (FeeArgVals \X FeeArgVals)

Positions(dec) ==
    {[token0 |-> TOKEN0, token1 |-> TOKEN1, il |-> il, iu |-> iu,
      fr0 |-> 0, fr1 |-> 0, liquidity |-> Dec(l), decimals |-> dec,
      decimals0 |-> IF dec THEN get_decimals(TOKEN0) ELSE 0,
      decimals1 |-> IF dec THEN get_decimals(TOKEN1) ELSE 0] :
        il \in Ticks, iu \in Ticks, l \in LiquidityVals}

InitBalance ==
    /\ pc = "balance"
    /\ wallet = ownerOf
    /\ decimals \in BOOLEAN
    /\ position_nft \in Positions(decimals)
    /\ fees \in FeesArgs
    /\ fee = (fees # None)
    /\ poolFeeToken = 0
    /\ slot0 \in Slot0States
    /\ current_tick = slot0[2]
    /\ current_square_price = DecDiv(Dec(slot0[1]), Dec(Pow(2, XBits)))
    /\ feeGrowthGlobal = None
    /\ feeGrowthOutsideLow = None
    /\ feeGrowthOutsideUp = None
    /\ fee_locals = None
    /\ balance_locals = None
    /\ result = None
    /\ exc = "none"
    /\ block = 0
    /\ head = 0
    /\ reads = <<>>
    /\ OthersIdle

SpecBalance == InitBalance /\ [][CallGetBalance]_vars

\* ------------------------------------------------------------ claims ----
Range(seq) == {seq[i] : i \in 1..Len(seq)}

Owned == ownerOf = wallet

Returned == pc = "done" /\ Owned

il_ == position_nft.il

iu_ == position_nft.iu

HasLiquidity == position_nft.liquidity # Dec(0)

\* C1: when ownerOf(nftid) is not the checksummed wallet, underlying()
\* returns the empty list and no exception is left for the caller, for
\* every value of the fee and decimals flags.
C1_NotOwnerReturnsEmpty ==
    (pc = "done" /\ ~Owned) => (result = <<>> /\ exc = "none")

C1_Witness == pc = "done" /\ ~Owned /\ fee /\ ~decimals

\* C2: a position with liquidity == 0 makes get_balance return the empty
\* list, whatever the tick, the price, the fees argument and the flags are.
C2_ZeroLiquidityEmpty ==
    (pc = "done" /\ ~HasLiquidity) => result = <<>>

C2_Witness ==
    /\ pc = "done" /\ ~HasLiquidity /\ decimals
    /\ fees # None /\ fees[1] > 0 /\ fees[2] > 0

\* The fee the claim C3 states: every subtraction taken modulo 2^WBits,
\* then floor(d * L / 2^QBits).
ModularFee(ic, il, iu, fg, folow, foup, fr, liquidity) ==
    LET below == IF ic >= il THEN folow ELSE (fg - folow) % Modulus
        above == IF ic >= iu THEN (fg - foup) % Modulus ELSE foup
        d     == (((fg - below - above) % Modulus) - fr) % Modulus
    IN  FloorDiv(d * liquidity, Pow(2, QBits))

LiquidityInt == DecToInt(position_nft.liquidity)

\* C3 (as claimed): get_fees returns, for each token, the fee computed with
\* every fee-growth subtraction modulo 2^WBits, and never a negative fee.
C3_FeesAreModular ==
    (pc = "balance" /\ fee /\ il_ < iu_) =>
        /\ fees[1] = ModularFee(current_tick, il_, iu_, feeGrowthGlobal[1],
                        feeGrowthOutsideLow[1], feeGrowthOutsideUp[1],
                        position_nft.fr0, LiquidityInt)
        /\ fees[2] = ModularFee(current_tick, il_, iu_, feeGrowthGlobal[2],
                        feeGrowthOutsideLow[2], feeGrowthOutsideUp[2],
                        position_nft.fr1, LiquidityInt)
        /\ fees[1] >= 0 /\ fees[2] >= 0

\* C4: get_fees takes feeBelow = fo_l when ic >= il and fg - fo_l when
\* ic < il, feeAbove = fg - fo_u when ic >= iu and fo_u when ic < iu, for
\* each token; ic = il counts as at-or-above lower, ic = iu as at-or-above
\* upper.
C4_BoundaryTieBreak ==
    fee_locals # None =>
        LET loc == fee_locals[1]
            ic  == current_tick
        IN  /\ ic < il_ =>
                 /\ loc.fee_lower_token0 = feeGrowthGlobal[1] - feeGrowthOutsideLow[1]
                 /\ loc.fee_lower_token1 = feeGrowthGlobal[2] - feeGrowthOutsideLow[2]
            /\ ~(ic < il_) =>
                 /\ loc.fee_lower_token0 = feeGrowthOutsideLow[1]
                 /\ loc.fee_lower_token1 = feeGrowthOutsideLow[2]
            /\ ic < iu_ =>
                 /\ loc.fee_upper_token0 = feeGrowthOutsideUp[1]
                 /\ loc.fee_upper_token1 = feeGrowthOutsideUp[2]
            /\ ~(ic < iu_) =>
                 /\ loc.fee_upper_token0 = feeGrowthGlobal[1] - feeGrowthOutsideUp[1]
                 /\ loc.fee_upper_token1 = feeGrowthGlobal[2] - feeGrowthOutsideUp[2]

C4_Witness ==
    /\ fee_locals # None
    /\ current_tick = il_ /\ il_ < iu_
    /\ feeGrowthGlobal[1] = 0 /\ feeGrowthOutsideLow[1] = UintMax

sa_ == SqrtPriceAtTick(il_)

sb_ == SqrtPriceAtTick(iu_)

sp_ == current_square_price

L_ == position_nft.liquidity

\* C5: for il < iu exactly one regime applies: iu <= ic gives reserves
\* (0, L*(sb-sa)); il < ic < iu gives (L*(sb-sp)/(sp*sb), L*(sp-sa));
\* ic <= il gives (L*(sb-sa)/(sa*sb), 0).
C5_ThreeRegimes ==
    (balance_locals # None /\ il_ < iu_) =>
        LET loc == balance_locals[1]
            ic  == current_tick
            up  == iu_ <= ic
            mid == il_ < ic /\ ic < iu_
            low == ic <= il_
        IN  /\ up =>  /\ loc.regime = "upper"
                      /\ loc.reserve0 = Dec(0)
                      /\ loc.reserve1 = DecMul(L_, DecSub(sb_, sa_))
            /\ mid => /\ loc.regime = "inside"
                      /\ loc.reserve0 =
                            DecDiv(DecMul(L_, DecSub(sb_, sp_)), DecMul(sp_, sb_))
                      /\ loc.reserve1 = DecMul(L_, DecSub(sp_, sa_))
            /\ low => /\ loc.regime = "lower"
                      /\ loc.reserve0 =
                            DecDiv(DecMul(L_, DecSub(sb_, sa_)), DecMul(sa_, sb_))
                      /\ loc.reserve1 = Dec(0)
            /\ (up \/ mid \/ low)
            /\ ~(up /\ mid) /\ ~(up /\ low) /\ ~(mid /\ low)

C5_Witness ==
    /\ balance_locals # None /\ il_ < iu_
    /\ current_tick = iu_
    /\ balance_locals[1].reserve1 # Dec(0)

IsZero(self, final) == IF self.decimals THEN final = Dec(0) ELSE final = 0

\* C6 (as claimed): with liquidity > 0 and a valid range, a token is in the
\* returned list exactly when its final amount is not zero.
C6_OmittedOnlyWhenZero ==
    (Returned /\ HasLiquidity /\ il_ < iu_) =>
        LET loc == balance_locals[1]
        IN  /\ (\E a \in Range(result) : a[1] = position_nft.token0)
                  <=> ~IsZero(position_nft, loc.amount0)
            /\ (\E a \in Range(result) : a[1] = position_nft.token1)
                  <=> ~IsZero(position_nft, loc.amount1)

\* C7: with fees requested, liquidity > 0 and integer output, a computed
\* fee0 > 0 in the branch iu <= ic puts [token0, fee0] in the result, and a
\* computed fee1 > 0 in the branch ic <= il puts [token1, fee1] in it.
C7_FeeFillsStructuralZero ==
    (Returned /\ fee /\ HasLiquidity /\ ~decimals) =>
        /\ (iu_ <= current_tick /\ fees[1] > 0) =>
              <<position_nft.token0, fees[1]>> \in Range(result)
        /\ (~(iu_ <= current_tick) /\ current_tick <= il_ /\ fees[2] > 0) =>
              <<position_nft.token1, fees[2]>> \in Range(result)

C7_Witness ==
    /\ Returned /\ fee /\ HasLiquidity /\ ~decimals /\ il_ < iu_
    /\ current_tick <= il_ /\ fees[2] > 0

Max0(f) == IF f < 0 THEN 0 ELSE f

IsNegative(self, final) == IF self.decimals THEN final.m < 0 ELSE final < 0

\* C8: in the branch whose reserve for a token is zero, the fee added for
\* that token is max(fee, 0), so that token's amount is never negative.
C8_ZeroReserveFeeClamped ==
    (balance_locals # None) =>
        LET loc == balance_locals[1]
            fa  == IF fees = None THEN 0 ELSE fees[1]
            fb  == IF fees = None THEN 0 ELSE fees[2]
        IN  /\ loc.regime = "upper" =>
                 /\ loc.amount0fee = Max0(fa)
                 /\ ~IsNegative(position_nft, loc.amount0)
            /\ loc.regime = "lower" =>
                 /\ loc.amount1fee = Max0(fb)
                 /\ ~IsNegative(position_nft, loc.amount1)

C8_Witness ==
    /\ balance_locals # None /\ fees # None
    /\ balance_locals[1].regime = "upper" /\ fees[1] < 0

\* C9 (as claimed): a position whose fields have tickLower >= tickUpper
\* makes the valuation fail with an invalid-range error.
C9_InvalidRangeRaises ==
    (Returned /\ il_ >= iu_) => exc = "InvalidRangeError"

\* C9 (amended): a position with tickLower >= tickUpper raises nothing:
\* underlying() returns a list, computed by the branch iu <= ic when
\* iu <= ic and by the branch ic <= il otherwise.
C9_InvalidRangeIsValued ==
    (Returned /\ il_ >= iu_) =>
        /\ exc = "none"
        /\ HasLiquidity =>
              balance_locals[1].regime =
                  IF iu_ <= current_tick THEN "upper" ELSE "lower"
        /\ Len(result) <= 2

C9_Witness ==
    /\ Returned /\ il_ > iu_ /\ HasLiquidity /\ current_tick = iu_
    /\ Len(result) = 1

\* C10 (as claimed): the de-scaling returns r = floor(d * L / 2^QBits), i.e.
\* r * 2^QBits <= d * L < (r + 1) * 2^QBits (stated here for d >= 0).
C10_DescaleFloors ==
    fee_locals # None =>
        LET loc == fee_locals[1]
            d   == fee_growth_diff(feeGrowthGlobal[1], loc.fee_lower_token0,
                                   loc.fee_upper_token0, position_nft.fr0)
            q   == Pow(2, QBits)
        IN  (d >= 0 /\ il_ < iu_) =>
                      /\ loc.fa * q <= d * LiquidityInt
                      /\ d * LiquidityInt < (loc.fa + 1) * q

\* ------------------------- PositionNFT methods called again and again ---
\* get_fees and get_balance are methods of a built PositionNFT: here they
\* are called repeatedly on one object, in any order, with the same
\* arguments each time.
MaxCalls == 3

\* Mutant: get_fees moves the fee checkpoint, as collecting on chain does.
get_fees_self_Checkpoints(self, ic, fg0, fg1, fo0low, fo1low, fo0up, fo1up) ==
    [self EXCEPT !.fr0 = fg0, !.fr1 = fg1]

\* The fields of self after get_fees: the body assigns to locals only.
get_fees_self(self, ic, fg0, fg1, fo0low, fo1low, fo0up, fo1up) == self

\* The fields of self after get_balance: the body assigns to locals only.
get_balance_self(self, ic, sp, fees_arg) == self

InitMethods ==
    /\ pc = "methods"
    /\ wallet = ownerOf
    /\ decimals \in BOOLEAN
    /\ fee = TRUE
    /\ poolFeeToken = 0
    /\ position_nft \in Positions(decimals)
    /\ slot0 \in Slot0States
    /\ current_tick = slot0[2]
    /\ current_square_price = DecDiv(Dec(slot0[1]), Dec(Pow(2, XBits)))
    /\ feeGrowthGlobal \in FeeGrowthOf(0) \X FeeGrowthOf(1)
    /\ feeGrowthOutsideLow = <<0, 0>>
    /\ feeGrowthOutsideUp = <<0, 0>>
    /\ fees = None
    /\ fee_locals = None
    /\ balance_locals = None
    /\ result = None
    /\ exc = "none"
    /\ block = 0
    /\ head = 0
    /\ reads = <<>>
    /\ OthersIdle

\* position_nft.get_fees(ic, fg0, fg1, fo0low, fo1low, fo0up, fo1up)
MethodGetFees ==
    /\ pc = "methods"
    /\ Len(calls) < MaxCalls
    /\ fees' = get_fees(position_nft, current_tick,
                        feeGrowthGlobal[1], feeGrowthGlobal[2],
                        feeGrowthOutsideLow[1], feeGrowthOutsideLow[2],
                        feeGrowthOutsideUp[1], feeGrowthOutsideUp[2])
    /\ position_nft' = get_fees_self(position_nft, current_tick,
                        feeGrowthGlobal[1], feeGrowthGlobal[2],
                        feeGrowthOutsideLow[1], feeGrowthOutsideLow[2],
                        feeGrowthOutsideUp[1], feeGrowthOutsideUp[2])
    /\ calls' = Append(calls, "get_fees")
    /\ UNCHANGED <<pc, wallet, decimals, fee, poolFeeToken, slot0,
                   current_tick, current_square_price, feeGrowthGlobal,
                   feeGrowthOutsideLow, feeGrowthOutsideUp, fee_locals,
                   balance_locals, result, exc, block, head, reads>>
    /\ UNCHANGED <<allVars, rateVars, priceVars, sparkVars>>

\* position_nft.get_balance(ic, sp, fees), fees from the last get_fees
MethodGetBalance ==
    /\ pc = "methods"
    /\ Len(calls) < MaxCalls
    /\ result' = get_balance(position_nft, current_tick,
                             current_square_price, fees)
    /\ position_nft' = get_balance_self(position_nft, current_tick,
                                        current_square_price, fees)
    /\ calls' = Append(calls, "get_balance")
    /\ UNCHANGED <<pc, wallet, decimals, fee, poolFeeToken, slot0,
                   current_tick, current_square_price, feeGrowthGlobal,
                   feeGrowthOutsideLow, feeGrowthOutsideUp, fees, fee_locals,
                   balance_locals, exc, block, head, reads>>
    /\ UNCHANGED <<allVars, rateVars, priceVars, sparkVars>>

NextMethods ==
    \/ MethodGetFees
    \/ MethodGetBalance

SpecMethods == InitMethods /\ [][NextMethods]_vars

MaxNfts == 3

NftIds == 1..MaxNfts

\* What tokenOfOwnerByIndex can enumerate for a wallet: distinct ids.
OwnedEnumerations ==
    UNION {{e \in [1..n -> NftIds] : \A i, j \in 1..n : i # j => e[i] # e[j]} :
             n \in 0..MaxNfts}

\* allnfts(): balanceOf(wallet), then tokenOfOwnerByIndex(wallet, nft_index)
\* for nft_index in range(nfts), appended in that order.
allnfts(tokenOfOwnerByIndex) ==
    [nft_index \in 1..Len(tokenOfOwnerByIndex) |->
        tokenOfOwnerByIndex[nft_index]]

\* What underlying(wallet, nft, ...) can return: [] or a list of
\* [token, amount] pairs; the amount of the first pair stands for the
\* valuation of position nft.
UnderlyingResults(nftid) ==
    {<<>>, <<<<TOKEN0, nftid>>>>, <<<<TOKEN0, nftid>>, <<TOKEN1, 0>>>>}

\* Mutant: the list is returned as accumulated.
filter_none_Keeps(seq) == seq

\* list(filter(None, balances)): the falsy (empty) elements are dropped.
RECURSIVE filter_none(_)
filter_none(seq) ==
    IF seq = <<>> THEN <<>>
    ELSE (IF Head(seq) = <<>> THEN <<>> ELSE <<Head(seq)>>)
            \o filter_none(Tail(seq))

InitAll ==
    /\ pc = "allnfts"
    /\ UniIdle
    /\ OthersIdle

\* for nft in allnfts(wallet, block, blockchain): the call of allnfts
CallAllNfts ==
    /\ pc = "allnfts"
    /\ \E e \in OwnedEnumerations : nftids' = allnfts(e)
    /\ nft' = 0
    /\ balances' = <<>>
    /\ pc' = "loop"
    /\ UNCHANGED <<result, exc, uniVars>>
    /\ UNCHANGED <<calls, rateVars, priceVars, sparkVars>>

\* balances.append(underlying(wallet, nft, block, blockchain, ...))
AppendUnderlying ==
    /\ pc = "loop"
    /\ nft < Len(nftids)
    /\ \E r \in UnderlyingResults(nftids[nft + 1]) :
          balances' = Append(balances, r)
    /\ nft' = nft + 1
    /\ UNCHANGED <<pc, result, exc, uniVars>>
    /\ UNCHANGED <<calls, nftids, rateVars, priceVars, sparkVars>>

\* return list(filter(None, balances))
ReturnAll ==
    /\ pc = "loop"
    /\ nft = Len(nftids)
    /\ result' = filter_none(balances)
    /\ pc' = "done"
    /\ UNCHANGED <<exc, uniVars, otherVars>>

NextAll ==
    \/ CallAllNfts
    \/ AppendUnderlying
    \/ ReturnAll

SpecAll == InitAll /\ [][NextAll]_vars

\* The id whose valuation a non-empty entry carries.
IdOf(entry) == entry[1][2]

\* underlying() returned a non-empty valuation for position nftid.
Valued(nftid) ==
    \E j \in 1..Len(balances) : balances[j] # <<>> /\ IdOf(balances[j]) = nftid

\* C12: when underlying_all has returned, its result has no empty entry,
\* every entry is a result underlying() returned, and the positions the
\* entries belong to are, in the order allnfts enumerated them, exactly the
\* ids whose valuation was non-empty.
C12_AllNonEmptyInOrder ==
    pc = "done" =>
        /\ \A i \in 1..Len(result) :
              result[i] # <<>> /\ result[i] \in Range(balances)
        /\ [i \in 1..Len(result) |-> IdOf(result[i])]
              = SelectSeq(nftids, Valued)

\* Three positions enumerated, one of them with an empty valuation.
C12_Witness ==
    /\ pc = "done"
    /\ Len(nftids) = 3
    /\ <<>> \in Range(balances)
    /\ Len(result) = 2

\* ------------------------------------------- get_rate_uniswap_v3() ------
\* The sqrtPriceX96 values a pool can hold (non-zero once initialised).
SqrtPrices == 1..Pow(2, XBits + 1)

RateTokens == {TOKEN0, TOKEN1}

TokenPairs == {p \in RateTokens \X RateTokens : p[1] # p[2]}

\* 10 ** (token_dst_decimals - token_src_decimals) as a Decimal: an int for
\* an exponent >= 0; for a negative exponent Python yields a float, which
\* Decimal() takes over digit for digit.
DecPowerOfTen(k) == IF k >= 0 THEN Dec(Pow(10, k)) ELSE [m |-> 1, e |-> k]

\* (Decimal(sqrt_price_x96) / Decimal(2 ** 96)) ** 2
rate_current_price(sqrt_price_x96) ==
    LET sp == DecDiv(Dec(sqrt_price_x96), Dec(Pow(2, XBits)))
    IN  DecMul(sp, sp)

\* Mutant: the price is never inverted.
rate_factor_NoInverse(token_src, token0, current_price) == current_price

\* factor = current_price if token_src == token0 else 1 / current_price
rate_factor(token_src, token0, current_price) ==
    IF token_src = token0 THEN current_price
    ELSE DecDiv(Dec(1), current_price)

get_rate_uniswap_v3(token_src, token_dst, the_pool) ==
    LET factor == rate_factor(token_src, the_pool.token0,
                              rate_current_price(the_pool.sqrt_price_x96))
    IN  DecToFloat(DecDiv(factor,
            DecPowerOfTen(get_decimals(token_dst) - get_decimals(token_src))))

InitRate ==
    /\ pc = "rate"
    /\ UniIdle
    /\ CallsIdle
    /\ AllIdle
    /\ PriceIdle
    /\ AccountIdle
    /\ PositionIdle
    /\ pool \in [sqrt_price_x96 : SqrtPrices, token0 : RateTokens]
    /\ rates = [p \in TokenPairs |-> None]

\* One call get_rate_uniswap_v3(token_src, token_dst, block, blockchain).
CallGetRate ==
    /\ pc = "rate"
    /\ \E p \in TokenPairs :
          /\ rates[p] = None
          /\ rates' = [rates EXCEPT
                ![p] = <<get_rate_uniswap_v3(p[1], p[2], pool)>>]
    /\ UNCHANGED <<pc, result, exc, uniVars, pool>>
    /\ UNCHANGED <<calls, allVars, priceVars, sparkVars>>

SpecRate == InitRate /\ [][CallGetRate]_vars

\* The relative error one returned rate can carry: the float rounding and
\* the Decimal roundings before it stay within one unit of the float's
\* last digit, that is a factor (RateTol + 1) / RateTol.
RateTol == Pow(10, FloatPrec - 1)

\* n * 10^e <= a / b  and  n * 10^e >= a / b, for n, a, b > 0
LeqRatio(n, e, a, b) ==
    IF e >= 0 THEN n * Pow(10, e) * b <= a ELSE n * b <= a * Pow(10, -e)

GeqRatio(n, e, a, b) ==
    IF e >= 0 THEN n * Pow(10, e) * b >= a ELSE n * b >= a * Pow(10, -e)

BothRates ==
    /\ pc = "rate"
    /\ rates[<<TOKEN0, TOKEN1>>] # None
    /\ rates[<<TOKEN1, TOKEN0>>] # None

\* C13: once both directions of a pair have been quoted at the same pool
\* state, the product of the two rates is 1 up to the rounding of the two
\* results: it lies between (RateTol / (RateTol + 1))^2 and
\* ((RateTol + 1) / RateTol)^2.
C13_RatesAreReciprocal ==
    BothRates =>
        LET ab == rates[<<TOKEN0, TOKEN1>>][1]
            ba == rates[<<TOKEN1, TOKEN0>>][1]
            n  == ab.m * ba.m
            e  == ab.e + ba.e
        IN  /\ n > 0
            /\ LeqRatio(n, e, (RateTol + 1) * (RateTol + 1), RateTol * RateTol)
            /\ GeqRatio(n, e, RateTol * RateTol, (RateTol + 1) * (RateTol + 1))

\* Both directions quoted at a price far from 1, with token1 as the pool's
\* token0 and different decimals on the two sides.
C13_Witness ==
    /\ BothRates
    /\ pool.sqrt_price_x96 = 4
    /\ pool.token0 = TOKEN1
    /\ get_decimals(TOKEN0) # get_decimals(TOKEN1)

\* ------------------------------------- the reads of underlying() -------
ReadNames == {reads[i][1] : i \in 1..Len(reads)}

\* C14: during one underlying() call a get_decimals read is issued only
\* when the decimals argument is True, and then only after the ownerOf read
\* and with the ownership check passed (the owner is the checksummed
\* wallet); with decimals False the log of reads holds no get_decimals.
C14_DecimalsReadOnDemand ==
    /\ (~decimals => "get_decimals" \notin ReadNames)
    /\ \A i \in 1..Len(reads) :
          reads[i][1] = "get_decimals" =>
              /\ decimals
              /\ wallet = ownerOf
              /\ \E j \in 1..(i - 1) : reads[j][1] = "ownerOf"

\* A finished valuation with decimals=True: both decimals were read, after
\* the owner and the position fields.
C14_Witness ==
    /\ pc = "done"
    /\ decimals
    /\ Len(reads) >= 4
    /\ reads[1][1] = "ownerOf"
    /\ reads[3][1] = "get_decimals"
    /\ reads[4][1] = "get_decimals"

\* ------------------------------ underlying() at block 'latest' ----------
\* The chain grows by at most MaxHead blocks while the call runs.
MaxHead == 1

\* The pool has taken fees in neither token.
NoFeeToken == 2

InitLatest ==
    /\ pc = "start"
    /\ wallet \in WalletArgs
    /\ decimals \in BOOLEAN
    /\ fee \in BOOLEAN
    /\ poolFeeToken = NoFeeToken
    /\ position_nft = NoPosition
    /\ slot0 = None
    /\ current_tick = 0
    /\ current_square_price = Dec(0)
    /\ feeGrowthGlobal = None
    /\ feeGrowthOutsideLow = None
    /\ feeGrowthOutsideUp = None
    /\ fees = None
    /\ fee_locals = None
    /\ balance_locals = None
    /\ result = None
    /\ exc = "none"
    /\ block = LATEST
    /\ head = 0
    /\ reads = <<>>
    /\ OthersIdle

\* A new block is mined while underlying() runs: a read at 'latest' now
\* sees the new block, whose slot0 has not been read yet.
ChainAdvance ==
    /\ pc # "done"
    /\ head < MaxHead
    /\ head' = head + 1
    /\ slot0' = IF block = LATEST THEN None ELSE slot0
    /\ UNCHANGED <<pc, wallet, decimals, fee, poolFeeToken, position_nft,
                   current_tick, current_square_price, feeGrowthGlobal,
                   feeGrowthOutsideLow, feeGrowthOutsideUp, fees, fee_locals,
                   balance_locals, result, exc, block, reads, otherVars>>

NextLatest ==
    \/ Next
    \/ ChainAdvance

SpecLatest == InitLatest /\ [][NextLatest]_vars

\* C15: all the contract reads of one underlying() call (the owner, the
\* position fields, the pool, both slot0 reads, the fee-growth reads) are
\* evaluated at one and the same block, also with block = 'latest' while
\* the chain advances.
C15_ReadsShareOneBlock ==
    \A i, j \in 1..Len(reads) :
        (reads[i][1] # "get_decimals" /\ reads[j][1] # "get_decimals")
            => reads[i][2] = reads[j][2]

\* ------------------------------------------------------ get_price() -----
SOURCES_LIST == <<"chainlink", "1inch", "coingecko">>

ETHEREUM == "ethereum"

XDAI == "xdai"

ZERO_ADDRESS == "0x00"

TOKEN_ADDRESS == "0xT0"

MaxPrice == 2

\* A price a source can come back with: None (also after an exception
\* caught in _get_price_from_source), 0, or a positive price.
PriceAnswers == {None} \cup {<<p>> : p \in 0..MaxPrice}

\* CoinGecko.get_price returns [status, [timestamp, price]].
CoinGeckoResponses == {<<429, None>>} \cup {<<200, p>> : p \in PriceAnswers}

\* SOURCES_LIST.index(source), counted from 1
SourceIndex(src) == CHOOSE i \in 1..Len(SOURCES_LIST) : SOURCES_LIST[i] = src

\* Mutant: 'chainlink' is kept on every blockchain.
effective_source_Keeps(chain, src) == src

\* if blockchain != ETHEREUM and source == "chainlink": source = "1inch"
effective_source(chain, src) ==
    IF chain # ETHEREUM /\ src = "chainlink" THEN "1inch" ELSE src

\* Mutant: the fallback goes straight to the last source.
next_source_Skips(src) == SOURCES_LIST[Len(SOURCES_LIST)]

\* Mutant: the fallback stays at the source it is at.
next_source_Stays(src) == src

\* SOURCES_LIST[SOURCES_LIST.index(source) + 1]
next_source(src) == SOURCES_LIST[SourceIndex(src) + 1]

\* Mutant: the price is returned as the last source gave it.
exhausted_price_AsIs(flag, last_price) == last_price

\* except IndexError: if flag_zero: price = 0.0
exhausted_price(flag, last_price) == IF flag THEN <<0>> ELSE last_price

InitPrice ==
    /\ pc = "get_price"
    /\ UniIdle
    /\ CallsIdle
    /\ AllIdle
    /\ RateIdle
    /\ AccountIdle
    /\ PositionIdle
    /\ token_address \in {ZERO_ADDRESS, TOKEN_ADDRESS}
    /\ blockchain \in {ETHEREUM, XDAI}
    /\ source \in Range(SOURCES_LIST)
    /\ requested = source
    /\ price = None
    /\ flag_zero = FALSE
    /\ consulted = <<>>

\* if token_address == ZERO_ADDRESS: return native price, "chainlink", ...
NativeTokenPrice ==
    /\ pc = "get_price"
    /\ token_address = ZERO_ADDRESS
    /\ \E p \in PriceAnswers : result' = <<p, "chainlink", blockchain>>
    /\ pc' = "done"
    /\ UNCHANGED <<exc, uniVars, otherVars>>

\* the replacement of 'chainlink' off Ethereum, before the first query
EffectiveSource ==
    /\ pc = "get_price"
    /\ token_address # ZERO_ADDRESS
    /\ source' = effective_source(blockchain, source)
    /\ pc' = "query"
    /\ UNCHANGED <<result, exc, uniVars>>
    /\ UNCHANGED <<calls, allVars, rateVars, token_address, blockchain,
                   requested,
                   price, flag_zero, consulted, sparkVars>>

\* _get_price_from_source for "chainlink" and "1inch": the price, or None
\* when the source raised.
GetPriceFromSource ==
    /\ pc = "query"
    /\ source \in {"chainlink", "1inch"}
    /\ \E p \in PriceAnswers :
          /\ price' = p
          /\ consulted' = Append(consulted, <<source, p>>)
    /\ pc' = "while"
    /\ UNCHANGED <<result, exc, uniVars>>
    /\ UNCHANGED <<calls, allVars, rateVars, token_address, blockchain,
                   requested,
                   source, flag_zero, sparkVars>>

\* _get_price_from_source for 'coingecko': CoinGecko.get_price, first call
\* or a call after sleep(1); a 429 leads to the sleep, any other status to
\* price[1][1].
CoinGeckoGetPrice ==
    /\ pc \in {"query", "retry"}
    /\ source = "coingecko"
    /\ \E resp \in CoinGeckoResponses :
          IF resp[1] = 429
            THEN /\ pc' = "sleep"
                 /\ UNCHANGED <<price, consulted>>
            ELSE /\ price' = resp[2]
                 /\ consulted' = Append(consulted, <<source, resp[2]>>)
                 /\ pc' = "while"
    /\ UNCHANGED <<result, exc, uniVars>>
    /\ UNCHANGED <<calls, allVars, rateVars, token_address, blockchain,
                   requested,
                   source, flag_zero, sparkVars>>

\* while price[0] == 429: sleep(1)
Sleep ==
    /\ pc = "sleep"
    /\ pc' = "retry"
    /\ UNCHANGED <<result, exc, uniVars, otherVars>>

\* while price is None or price == 0: ... source = SOURCES_LIST[index + 1]
FallbackNextSource ==
    /\ pc = "while"
    /\ price = None \/ price = <<0>>
    /\ SourceIndex(source) < Len(SOURCES_LIST)
    /\ flag_zero' = (flag_zero \/ price = <<0>>)
    /\ source' = next_source(source)
    /\ pc' = "query"
    /\ UNCHANGED <<result, exc, uniVars>>
    /\ UNCHANGED <<calls, allVars, rateVars, token_address, blockchain,
                   requested,
                   price, consulted, sparkVars>>

\* except IndexError: if flag_zero: price = 0.0; return (price, source, ...)
FallbackIndexError ==
    /\ pc = "while"
    /\ price = None \/ price = <<0>>
    /\ SourceIndex(source) = Len(SOURCES_LIST)
    /\ flag_zero' = (flag_zero \/ price = <<0>>)
    /\ price' = exhausted_price(flag_zero', price)
    /\ result' = <<price', source, blockchain>>
    /\ pc' = "done"
    /\ UNCHANGED <<exc, uniVars>>
    /\ UNCHANGED <<calls, allVars, rateVars, token_address, blockchain,
                   requested,
                   source, consulted, sparkVars>>

\* the loop condition is false: return (price, source, blockchain)
ReturnPrice ==
    /\ pc = "while"
    /\ price # None /\ price # <<0>>
    /\ result' = <<price, source, blockchain>>
    /\ pc' = "done"
    /\ UNCHANGED <<exc, uniVars, otherVars>>

NextPrice ==
    \/ NativeTokenPrice
    \/ EffectiveSource
    \/ GetPriceFromSource
    \/ CoinGeckoGetPrice
    \/ Sleep
    \/ FallbackNextSource
    \/ FallbackIndexError
    \/ ReturnPrice

SpecPrice == InitPrice /\ [][NextPrice]_vars

\* CoinGecko answers with a status other than 429 sooner or later, and
\* get_price keeps running.
CoinGeckoAnswers == CoinGeckoGetPrice /\ pc' = "while"

SpecPriceFair ==
    /\ InitPrice
    /\ [][NextPrice]_vars
    /\ WF_vars(NextPrice)
    /\ SF_vars(CoinGeckoAnswers)

\* ------------------------------------------------ claims C16 .. C19 -----
IsEmptyPrice(p) == p = None \/ p = <<0>>

NonNative == token_address # ZERO_ADDRESS

\* The source the first query goes to, given what the caller asked for.
EffectiveInitial ==
    IF blockchain # ETHEREUM /\ requested = "chainlink" THEN "1inch"
    ELSE requested

\* The place of a source in the order chainlink, 1inch, coingecko.
Position(src) ==
    CHOOSE i \in 1..3 : <<"chainlink", "1inch", "coingecko">>[i] = src

\* C16: for a non-native token the sources are consulted in the order
\* chainlink, 1inch, coingecko, starting at the effective initial source and
\* one step forward at a time, a further source only after the one before
\* returned None or 0; get_price returns the first price that is neither,
\* with the name of the source that gave it.
C16_FallbackInOrder ==
    NonNative =>
        /\ \A i \in 1..Len(consulted) :
              /\ Position(consulted[i][1]) = Position(EffectiveInitial) + i - 1
              /\ i < Len(consulted) => IsEmptyPrice(consulted[i][2])
        /\ (pc = "done" /\ ~IsEmptyPrice(consulted[Len(consulted)][2])) =>
              /\ result[1] = consulted[Len(consulted)][2]
              /\ result[2] = consulted[Len(consulted)][1]

\* chainlink answered 0, 1inch None, and coingecko's price was returned.
C16_Witness ==
    /\ NonNative
    /\ pc = "done"
    /\ Len(consulted) = 3
    /\ consulted[1] = <<"chainlink", <<0>>>>
    /\ consulted[2] = <<"1inch", None>>
    /\ result[1] = <<1>>
    /\ result[2] = "coingecko"

\* C17: when every source consulted for a non-native token returned None
\* or 0, get_price returns source 'coingecko', with price 0.0 if some
\* consulted source returned 0 and price None if all of them returned None.
C17_AllSourcesEmpty ==
    (NonNative /\ pc = "done"
       /\ \A i \in 1..Len(consulted) : IsEmptyPrice(consulted[i][2])) =>
        /\ result[2] = "coingecko"
        /\ result[1] =
              IF \E i \in 1..Len(consulted) : consulted[i][2] = <<0>>
                THEN <<0>> ELSE None

\* chainlink answered 0, the other two None: the price returned is 0.0.
C17_Witness ==
    /\ NonNative
    /\ pc = "done"
    /\ consulted = <<<<"chainlink", <<0>>>>, <<"1inch", None>>,
                     <<"coingecko", None>>>>
    /\ result[1] = <<0>>

\* C18: for a non-native token on a blockchain other than Ethereum no query
\* goes to chainlink, whatever source was requested: the first query of a
\* 'chainlink' request goes to 1inch, and the source reported is never
\* 'chainlink'.
C18_NoChainlinkOffEthereum ==
    (NonNative /\ blockchain # ETHEREUM) =>
        /\ \A i \in 1..Len(consulted) : consulted[i][1] # "chainlink"
        /\ (requested = "chainlink" /\ consulted # <<>>) =>
              consulted[1][1] = "1inch"
        /\ pc = "done" => result[2] # "chainlink"

\* 'chainlink' requested on xdai: 1inch was asked first and is reported.
C18_Witness ==
    /\ NonNative
    /\ blockchain = XDAI
    /\ requested = "chainlink"
    /\ pc = "done"
    /\ consulted[1][1] = "1inch"
    /\ result[2] = "1inch"

\* C19: if CoinGecko answers with a status other than 429 sooner or later,
\* get_price returns, whatever chainlink and 1inch answer; on the way no
\* more sources are consulted than SOURCES_LIST holds, that is at most
\* len(SOURCES_LIST) - 1 changes of source.
C19_GetPriceTerminates ==
    /\ <>(pc = "done")
    /\ [](Len(consulted) <= Len(SOURCES_LIST))

\* Returned after all three sources were consulted.
C19_Witness ==
    /\ NonNative
    /\ pc = "done"
    /\ requested = "chainlink"
    /\ Len(consulted) = 3
    /\ result[2] = "coingecko"

\* ------------------------------------------- spark: UserAccountData -----
MaxBase == 5

BaseVals == 0..MaxBase

\* The UserAccountData tuples get_user_account_data can deliver (uint256
\* fields; the three the two properties read are varied).
UserAccountDatas ==
    [total_collateral_base : BaseVals, total_debt_base : BaseVals,
     available_borrows_base : {0}, current_liquidation_threshold : BaseVals,
     ltv : {0}, health_factor : {0}]

Finite(d) == [kind |-> "finite", value |-> d]

\* Decimal("infinity")
Infinity == [kind |-> "Infinity", value |-> Dec(0)]

\* Decimal("nan")
NaN == [kind |-> "NaN", value |-> Dec(0)]

\* The signal the default context traps on a / b: DivisionByZero for a
\* non-zero a over zero, InvalidOperation (DivisionUndefined) for 0 / 0.
DivisionSignal(a, b) ==
    IF b.m # 0 THEN "none"
    ELSE IF a.m = 0 THEN "InvalidOperation" ELSE "DivisionByZero"

\* What a property read gives: the value returned, or the exception raised.
Returns(v) == [value |-> v, raised |-> "none"]

Raises(e) == [value |-> NaN, raised |-> e]

\* Mutant: no "except InvalidOperation" clause.
collateral_ratio_NoNaN(self) ==
    LET n   == DecMul(Dec(100), Dec(self.total_collateral_base))
        d   == Dec(self.total_debt_base)
        sig == DivisionSignal(n, d)
    IN  IF sig = "none" THEN Returns(Finite(DecDiv(n, d)))
        ELSE IF sig = "DivisionByZero" THEN Returns(Infinity)
        ELSE Raises(sig)

\* 100 * Decimal(self.total_collateral_base) / self.total_debt_base
collateral_ratio(self) ==
    LET n   == DecMul(Dec(100), Dec(self.total_collateral_base))
        d   == Dec(self.total_debt_base)
        sig == DivisionSignal(n, d)
    IN  IF sig = "none" THEN Returns(Finite(DecDiv(n, d)))
        ELSE IF sig = "DivisionByZero" THEN Returns(Infinity)
        ELSE IF sig = "InvalidOperation" THEN Returns(NaN)
        ELSE Raises(sig)

\* 1000000 / Decimal(self.current_liquidation_threshold)
liquidation_ratio(self) ==
    LET n   == Dec(1000000)
        d   == Dec(self.current_liquidation_threshold)
        sig == DivisionSignal(n, d)
    IN  IF sig = "none" THEN Returns(Finite(DecDiv(n, d)))
        ELSE IF sig = "DivisionByZero" THEN Returns(Infinity)
        ELSE Raises(sig)

InitAccount ==
    /\ pc = "account"
    /\ UniIdle
    /\ CallsIdle
    /\ AllIdle
    /\ RateIdle
    /\ PriceIdle
    /\ PositionIdle
    /\ user_account_data \in UserAccountDatas

\* user_account_data.collateral_ratio
ReadCollateralRatio ==
    /\ pc = "account"
    /\ LET r == collateral_ratio(user_account_data)
       IN  /\ result' = <<"collateral_ratio", r.value>>
           /\ exc' = r.raised
    /\ UNCHANGED <<pc, uniVars, otherVars>>

\* user_account_data.liquidation_ratio
ReadLiquidationRatio ==
    /\ pc = "account"
    /\ LET r == liquidation_ratio(user_account_data)
       IN  /\ result' = <<"liquidation_ratio", r.value>>
           /\ exc' = r.raised
    /\ UNCHANGED <<pc, uniVars, otherVars>>

NextAccount ==
    \/ ReadCollateralRatio
    \/ ReadLiquidationRatio

SpecAccount == InitAccount /\ [][NextAccount]_vars

\* The quotient n / d as a Decimal: correctly rounded to the context
\* precision.
Quotient(n, d) == [kind |-> "finite", value |-> RatRound(Prec, n, d, 0)]

\* C20: reading collateral_ratio or liquidation_ratio never raises.
\* collateral_ratio is 100 * total_collateral_base / total_debt_base when
\* the debt is not 0, infinity when the debt is 0 and the collateral is
\* not, NaN when both are 0; liquidation_ratio is
\* 1000000 / current_liquidation_threshold when that is not 0 and infinity
\* when it is 0.
C20_RatiosNeverRaise ==
    (pc = "account" /\ result # None) =>
        LET c == user_account_data.total_collateral_base
            d == user_account_data.total_debt_base
            t == user_account_data.current_liquidation_threshold
        IN  /\ exc = "none"
            /\ result[1] = "collateral_ratio" =>
                  result[2] = IF d # 0 THEN Quotient(100 * c, d)
                              ELSE IF c # 0 THEN [kind |-> "Infinity",
                                                  value |-> Dec(0)]
                              ELSE [kind |-> "NaN", value |-> Dec(0)]
            /\ result[1] = "liquidation_ratio" =>
                  result[2] = IF t # 0 THEN Quotient(1000000, t)
                              ELSE [kind |-> "Infinity", value |-> Dec(0)]

\* collateral_ratio read with no collateral and no debt: NaN came back.
C20_Witness ==
    /\ pc = "account"
    /\ user_account_data.total_collateral_base = 0
    /\ user_account_data.total_debt_base = 0
    /\ result = <<"collateral_ratio", [kind |-> "NaN", value |-> Dec(0)]>>
    /\ exc = "none"

\* -------------------------------- spark: ProtocolDataProvider.position ---
MaxAssets == 2

MaxAmount == 2

\* The amounts get_user_reserve_data reports (sp, stable debt, variable
\* debt), in the token's smallest unit.
AmountVals == 0..MaxAmount

UserReserveDatas == AmountVals \X AmountVals \X AmountVals

\* get_reserve_tokens_addresses(asset): the sp, stable-debt and
\* variable-debt tokens of a reserve.
ReserveTokensOf(a) ==
    <<[asset |-> a, kind |-> "sp"], [asset |-> a, kind |-> "stable_debt"],
      [asset |-> a, kind |-> "variable_debt"]>>

MainToken(a) == [asset |-> a, kind |-> "main"]

\* TokenAmount(amount, token) and TokenAmount.from_teu(amount, token)
TokenAmount(amount, token) == [amount |-> amount, token |-> token]

\* One pass of the outer loop of holding_underlying_iter: the pairs it
\* yields for reserve a, in the order sp, stable debt, variable debt.
RECURSIVE yield_pairs(_, _, _)
yield_pairs(a, user_reserve_data, k) ==
    IF k > 3 THEN <<>>
    ELSE LET teu_balance == user_reserve_data[1] - user_reserve_data[2]
                              - user_reserve_data[3]
             balance == TokenAmount(teu_balance, MainToken(a))
             teu_amount == user_reserve_data[k]
         IN  (IF teu_amount # 0
                THEN << <<TokenAmount(teu_amount, ReserveTokensOf(a)[k]),
                          balance>> >>
                ELSE <<>>)
             \o yield_pairs(a, user_reserve_data, k + 1)

\* zip(*pairs): one column per component of the pairs, none at all when
\* there is no pair.
zip_star(ps) ==
    IF ps = <<>> THEN <<>>
    ELSE <<[i \in 1..Len(ps) |-> ps[i][1]], [i \in 1..Len(ps) |-> ps[i][2]]>>

\* HoldingsUnderlyings(*columns): a NamedTuple of exactly two fields; any
\* other number of arguments is a TypeError.
HoldingsUnderlyings(columns) ==
    IF Len(columns) = 2
      THEN [value |-> << [holdings |-> columns[1],
                          underlying |-> columns[2]] >>,
            raised |-> "none"]
      ELSE [value |-> None, raised |-> "TypeError"]

InitPosition ==
    /\ pc = "position"
    /\ UniIdle
    /\ OthersIdle

\* for asset, tokens in self.assets_with_reserve_tokens: one reserve read
\* with get_user_reserve_data and its pairs yielded.
HoldingUnderlyingIter ==
    /\ pc = "position"
    /\ asset < MaxAssets
    /\ \E user_reserve_data \in UserReserveDatas :
          pairs' = pairs \o yield_pairs(asset + 1, user_reserve_data, 1)
    /\ asset' = asset + 1
    /\ UNCHANGED <<pc, result, exc, uniVars>>
    /\ UNCHANGED <<calls, allVars, rateVars, priceVars, user_account_data>>

\* return self.HoldingsUnderlyings(*zip(*self.holding_underlying_iter(..)))
ReturnPosition ==
    /\ pc = "position"
    /\ asset = MaxAssets
    /\ LET r == HoldingsUnderlyings(zip_star(pairs))
       IN  /\ result' = r.value
           /\ exc' = r.raised
    /\ pc' = "done"
    /\ UNCHANGED <<uniVars, otherVars>>

NextPosition ==
    \/ HoldingUnderlyingIter
    \/ ReturnPosition

SpecPosition == InitPosition /\ [][NextPosition]_vars

\* C21: position(wallet) returns the yielded pairs column by column:
\* holdings and underlying are as long as the list of pairs, the i-th pair
\* is (holdings[i], underlying[i]), and a wallet for which no pair is
\* yielded gets two empty columns; no exception is raised.
C21_PositionIsColumnWise ==
    pc = "done" =>
        /\ exc = "none"
        /\ result # None
        /\ Len(result[1].holdings) = Len(pairs)
        /\ Len(result[1].underlying) = Len(pairs)
        /\ \A i \in 1..Len(pairs) :
              pairs[i] = <<result[1].holdings[i], result[1].underlying[i]>>

=============================================================================
